---- MODULE Spec2Model ----
(***************************************************************************)
(* dotman (src/main.rs): install / link / update over a repository store   *)
(* and a link target under the configuration root.                         *)
(*                                                                         *)
(* Strings are sequences of one-character strings.  The filesystem is the  *)
(* record fs: the store root and its entries, the configuration root, the  *)
(* link target, and one directory outside the store that a symlink may     *)
(* point at.                                                               *)
(***************************************************************************)
EXTENDS Naturals, Sequences, FiniteSets

VARIABLES
    fs,          \* the filesystem (record, see FsStates)
    gitOnPath,   \* which::which("git") succeeds
    pc,          \* position of the running command ("idle" between commands)
    cur,         \* the running / last command: [op, name]
    result,      \* outcome of the last finished command
    pre,         \* fs when the running / last command was entered
    prevLink,    \* [ok, name]: the command before cur was a successful link of name
    cloneInvoked,\* the last install spawned `git clone`
    statKind,    \* what remove_path's symlink_metadata returned
    interference,\* removals by another actor during the running link
    racedAt,     \* pc at which the other actor removed the target ("none")
    todo,        \* update: store entries read_dir has not yielded yet
    order,       \* update: the entries in the order read_dir yielded them
    updStatus,   \* update: per entry Pending / Updated / PullFailed / SkippedNoVcs
    pullExit,    \* update: exit status git pull gave per entry
    updated,     \* update: counter `updated`
    skipped,     \* update: counter `skipped`
    url,         \* derive_repo_name: the argument
    derived,     \* derive_repo_name: the returned name
    dpc          \* derive_repo_name: "off" | "call" | "done"

vars == <<fs, gitOnPath, pc, cur, result, pre, prevLink, cloneInvoked, statKind,
          interference, racedAt, todo, order, updStatus, pullExit, updated, skipped,
          url, derived, dpc>>

-----------------------------------------------------------------------------
(* Bounds *)

MaxBaseLen == 3

MaxDecorations == 3

MaxInterference == 1

-----------------------------------------------------------------------------
(* Strings *)

Alphabet == {"/", ".", "g", "i", "t", "a"}

DotGit == <<".", "g", "i", "t">>

Slash == "/"

RECURSIVE Flatten(_)
Flatten(ss) == IF ss = <<>> THEN <<>> ELSE Head(ss) \o Flatten(Tail(ss))

\* every string of up to MaxBaseLen characters, followed by up to MaxDecorations
\* trailing decorations, each a '/' or a ".git"
Urls ==
    { b \o Flatten(d) :
        b \in UNION {[1..n -> Alphabet] : n \in 0..MaxBaseLen},
        d \in UNION {[1..n -> {<<Slash>>, DotGit}] : n \in 0..MaxDecorations} }

EndsWith(s, p) ==
    /\ Len(s) >= Len(p)
    /\ SubSeq(s, Len(s) - Len(p) + 1, Len(s)) = p

DropLast(s, n) == SubSeq(s, 1, Len(s) - n)

\* str::trim_end_matches(char): removes every trailing occurrence
RECURSIVE TrimEndMatchesChar(_, _)
TrimEndMatchesChar(s, c) ==
    IF Len(s) > 0 /\ s[Len(s)] = c
    THEN TrimEndMatchesChar(DropLast(s, 1), c)
    ELSE s

\* str::trim_end_matches(&str): removes the suffix repeatedly
RECURSIVE TrimEndMatchesStr(_, _)
TrimEndMatchesStr(s, p) ==
    IF Len(p) > 0 /\ EndsWith(s, p)
    THEN TrimEndMatchesStr(DropLast(s, Len(p)), p)
    ELSE s

\* str::rsplit(c).next(): the segment after the last c (the whole string if none)
RECURSIVE RSplitNext(_, _)
RSplitNext(s, c) ==
    IF Len(s) = 0 \/ s[Len(s)] = c
    THEN <<>>
    ELSE RSplitNext(DropLast(s, 1), c) \o <<s[Len(s)]>>

\* mutant: strip_suffix semantics, one '/' and one ".git" only
derive_repo_name_strip_once(repo_url) ==
    LET a == IF EndsWith(repo_url, <<Slash>>) THEN DropLast(repo_url, 1) ELSE repo_url
        b == IF EndsWith(a, DotGit) THEN DropLast(a, Len(DotGit)) ELSE a
    IN  RSplitNext(b, Slash)

derive_repo_name(repo_url) ==
    LET trimmed == TrimEndMatchesStr(TrimEndMatchesChar(repo_url, Slash), DotGit)
    IN  RSplitNext(trimmed, Slash)

-----------------------------------------------------------------------------
(* Filesystem *)

RepoNames == {<<"a">>, <<"b">>}

InstallUrls ==
    { <<>>,
      <<"/", "/", "/">>,
      <<"a">>,
      <<"a", ".", "g", "i", "t", "/">>,
      <<"x", "/", "b", ".", "g", "i", "t">>,
      <<"b", "/", "/">> }

\* a store entry: absent, a regular file, a directory without .git, a checkout,
\* or what a failed clone left behind (a directory holding incomplete .git data)
StoreKinds == {"absent", "file", "plain", "vcs", "partial"}

NoDest == [to |-> "none", name |-> <<>>]

\* DOTMAN_DIR joined with a name
StorePath(name) == [to |-> "store", name |-> name]

OtherDirPath == [to |-> "other", name |-> <<>>]

NowherePath == [to |-> "nowhere", name |-> <<>>]

Absent == [kind |-> "absent", dest |-> NoDest]

RegularFile == [kind |-> "file", dest |-> NoDest]

DirWithContents == [kind |-> "dir", dest |-> NoDest]

SymlinkTo(d) == [kind |-> "symlink", dest |-> d]

TargetStates ==
    {Absent, RegularFile, DirWithContents, SymlinkTo(OtherDirPath), SymlinkTo(NowherePath)}
        \cup {SymlinkTo(StorePath(n)) : n \in RepoNames}

FsStates ==
    { f \in [storeRoot : BOOLEAN, store : [RepoNames -> StoreKinds \ {"partial"}],
             configRoot : BOOLEAN, target : TargetStates, otherDir : {"present"}] :
        /\ (~f.storeRoot => \A n \in RepoNames : f.store[n] = "absent")
        /\ (~f.configRoot => f.target = Absent) }

IsDirKind(k) == k \in {"plain", "vcs", "partial"}

HasGitDir(k) == k \in {"vcs", "partial"}

\* Path::exists on a store entry
source_exists(f, name) == f.storeRoot /\ f.store[name] # "absent"

DestExists(f, d) ==
    CASE d.to = "store" -> source_exists(f, d.name)
      [] d.to = "other" -> f.otherDir = "present"
      [] OTHER -> FALSE

\* Path::exists on the link target: follows a symlink
target_exists(f) ==
    \/ f.target.kind \in {"file", "dir"}
    \/ f.target.kind = "symlink" /\ DestExists(f, f.target.dest)

\* fs::symlink_metadata on the link target: does not follow a symlink
symlink_metadata(f) ==
    IF f.target.kind = "absent" THEN "notfound" ELSE f.target.kind

symlink_exists(f) == symlink_metadata(f) = "symlink"

\* mutant: the check follows symlinks only, so a dangling symlink is not seen
needs_removal_follow_only(f) == target_exists(f)

\* mutant: a target that is already a symlink is left in place
needs_removal_unless_symlink(f) == target_exists(f) /\ ~symlink_exists(f)

needs_removal(f) == target_exists(f) \/ symlink_exists(f)

\* mutant: the source is not looked at
link_source_missing_never(f, name) == FALSE

\* cmd_link's pre-check
link_source_missing(f, name) == ~source_exists(f, name)

\* mutant: only a complete checkout counts as installed
install_dest_exists_checkout_only(f, name) == f.storeRoot /\ f.store[name] = "vcs"

\* cmd_install's dest.exists()
install_dest_exists(f, name) == source_exists(f, name)

\* fs::remove_file on the link target (unlink: one directory entry)
fs_remove_file(f) ==
    IF f.target.kind \in {"file", "symlink"}
    THEN [ok |-> TRUE, fs |-> [f EXCEPT !.target = Absent]]
    ELSE [ok |-> FALSE, fs |-> f]

\* fs::remove_dir_all on the link target (a symlink is unlinked, not followed)
fs_remove_dir_all(f) ==
    IF f.target.kind \in {"dir", "symlink"}
    THEN [ok |-> TRUE, fs |-> [f EXCEPT !.target = Absent]]
    ELSE [ok |-> FALSE, fs |-> f]

\* mutant: a symlink is classified by what it points at, so removing a symlink
\* to a directory empties that directory as well
remove_path_act_follow(kind, f) ==
    CASE kind = "symlink" ->
            LET d == f.target.dest
                g == IF d.to = "store" /\ source_exists(f, d.name)
                     THEN [f EXCEPT !.store[d.name] = "absent"]
                     ELSE IF d.to = "other" THEN [f EXCEPT !.otherDir = "removed"]
                     ELSE f
            IN  fs_remove_file(g)
      [] kind = "dir" -> fs_remove_dir_all(f)
      [] kind = "file" -> fs_remove_file(f)
      [] OTHER -> [ok |-> TRUE, fs |-> f]

\* remove_path after its symlink_metadata call returned `kind`
remove_path_act(kind, f) ==
    CASE kind = "symlink" -> fs_remove_file(f)
      [] kind = "dir" -> fs_remove_dir_all(f)
      [] kind = "file" -> fs_remove_file(f)
      [] OTHER -> [ok |-> TRUE, fs |-> f]

\* std::os::unix::fs::symlink(source, target): fails when target exists
fs_symlink(f, name) ==
    IF f.target.kind = "absent" /\ f.configRoot
    THEN [ok |-> TRUE, fs |-> [f EXCEPT !.target = SymlinkTo(StorePath(name))]]
    ELSE [ok |-> FALSE, fs |-> f]

\* creates DOTMAN_DIR when it is absent
ensure_dotman_dir(f) == [f EXCEPT !.storeRoot = TRUE]

-----------------------------------------------------------------------------
(* Commands *)

Ready == pc \in {"idle", "done"}

LinkPcs == {"link_stat", "link_remove", "link_symlink"}

NoLink == [ok |-> FALSE, name |-> <<>>]

NoStatus == [n \in RepoNames |-> "None"]

\* entering a command: the previous command's locals are gone
Begin(op, name) ==
    /\ Ready
    /\ cur' = [op |-> op, name |-> name]
    /\ pre' = fs
    /\ prevLink' = IF cur.op = "link" /\ result = "Ok"
                   THEN [ok |-> TRUE, name |-> cur.name]
                   ELSE NoLink
    /\ interference' = 0
    /\ racedAt' = "none"
    /\ statKind' = "none"
    /\ UNCHANGED <<gitOnPath, url, derived, dpc>>

ResetUpdate ==
    /\ todo' = {}
    /\ order' = <<>>
    /\ updStatus' = NoStatus
    /\ pullExit' = NoStatus
    /\ updated' = 0
    /\ skipped' = 0

\* cmd_install: returns [result, fs, cloned]
cmd_install_body(f, repo, git, cloneOk, leftover) ==
    LET f1 == ensure_dotman_dir(f)
        name == derive_repo_name(repo)
    IN  IF name = <<>>
        THEN [result |-> "InvalidRepoUrl", fs |-> f1, cloned |-> FALSE]
        ELSE IF install_dest_exists(f1, name)
        THEN [result |-> "Ok", fs |-> f1, cloned |-> FALSE]
        ELSE IF ~git
        THEN [result |-> "ToolNotFound", fs |-> f1, cloned |-> FALSE]
        ELSE IF cloneOk
        THEN [result |-> "Ok", fs |-> [f1 EXCEPT !.store[name] = "vcs"], cloned |-> TRUE]
        ELSE [result |-> "CloneFailed", fs |-> [f1 EXCEPT !.store[name] = leftover],
              cloned |-> TRUE]

CmdInstall ==
    \E repo \in InstallUrls, cloneOk \in BOOLEAN, leftover \in {"absent", "partial"} :
        LET name == derive_repo_name(repo)
            r == cmd_install_body(fs, repo, gitOnPath, cloneOk, leftover)
        IN  /\ name \in RepoNames \cup {<<>>}
            /\ Begin("install", name)
            /\ ResetUpdate
            /\ fs' = r.fs
            /\ result' = r.result
            /\ cloneInvoked' = r.cloned
            /\ pc' = "done"

\* cmd_link up to and including the test at line 134
CmdLinkStart ==
    \E name \in RepoNames :
        /\ Begin("link", name)
        /\ ResetUpdate
        /\ cloneInvoked' = FALSE
        /\ IF link_source_missing(fs, name)
           THEN /\ result' = "SourceNotFound"
                /\ pc' = "done"
                /\ fs' = fs
           ELSE /\ result' = "running"
                /\ fs' = [fs EXCEPT !.configRoot = TRUE]
                /\ pc' = IF needs_removal(fs) THEN "link_stat" ELSE "link_symlink"

\* remove_path: the symlink_metadata call
LinkStat ==
    /\ pc = "link_stat"
    /\ statKind' = symlink_metadata(fs)
    /\ pc' = "link_remove"
    /\ UNCHANGED <<fs, gitOnPath, cur, result, pre, prevLink, cloneInvoked, interference,
                   racedAt, todo, order, updStatus, pullExit, updated, skipped, url, derived, dpc>>

\* remove_path: the match arm chosen by the metadata, and the `?` at line 136
LinkRemove ==
    /\ pc = "link_remove"
    /\ LET r == remove_path_act(statKind, fs)
       IN  /\ fs' = r.fs
           /\ IF r.ok
              THEN pc' = "link_symlink" /\ result' = result
              ELSE pc' = "done" /\ result' = "RemovalFailed"
    /\ UNCHANGED <<gitOnPath, cur, pre, prevLink, cloneInvoked, statKind, interference,
                   racedAt, todo, order, updStatus, pullExit, updated, skipped, url, derived, dpc>>

\* the symlink call and the return
LinkSymlink ==
    /\ pc = "link_symlink"
    /\ LET r == fs_symlink(fs, cur.name)
       IN  /\ fs' = r.fs
           /\ result' = IF r.ok THEN "Ok" ELSE "SymlinkCreationFailed"
    /\ pc' = "done"
    /\ UNCHANGED <<gitOnPath, cur, pre, prevLink, cloneInvoked, statKind, interference,
                   racedAt, todo, order, updStatus, pullExit, updated, skipped, url, derived, dpc>>

\* another process removes the link target while cmd_link runs (no locking)
OtherActorRemovesTarget ==
    /\ pc \in LinkPcs
    /\ interference < MaxInterference
    /\ fs.target.kind # "absent"
    /\ fs' = [fs EXCEPT !.target = Absent]
    /\ interference' = interference + 1
    /\ racedAt' = pc
    /\ UNCHANGED <<gitOnPath, pc, cur, result, pre, prevLink, cloneInvoked, statKind,
                   todo, order, updStatus, pullExit, updated, skipped, url, derived, dpc>>

\* cmd_update up to the loop
CmdUpdateStart ==
    /\ Begin("update", <<>>)
    /\ cloneInvoked' = FALSE
    /\ fs' = ensure_dotman_dir(fs)
    /\ order' = <<>>
    /\ updated' = 0
    /\ skipped' = 0
    /\ pullExit' = NoStatus
    /\ IF ~gitOnPath
       THEN /\ result' = "ToolNotFound"
            /\ pc' = "done"
            /\ todo' = {}
            /\ updStatus' = NoStatus
       ELSE /\ result' = "running"
            /\ pc' = "update_loop"
            /\ todo' = {n \in RepoNames : fs.store[n] # "absent"}
            /\ updStatus' = [n \in RepoNames |->
                                IF IsDirKind(fs.store[n]) THEN "Pending" ELSE "None"]

\* mutant: a failed pull is tallied as updated
count_updated_any_exit(n, exit) == n + 1

count_updated(n, exit) == IF exit = "success" THEN n + 1 ELSE n

\* mutant: a non-zero exit propagates like a spawn error
pull_continues_only_on_success(exit) == exit = "success"

\* the loop goes on after the pull unless the spawn itself failed (`?` at line 201)
pull_continues(exit) == exit # "spawn_error"

\* one iteration of the loop over read_dir
UpdateStep ==
    /\ pc = "update_loop"
    /\ \E e \in todo, exit \in {"success", "nonzero", "spawn_error"} :
        /\ todo' = todo \ {e}
        /\ order' = Append(order, e)
        /\ IF ~IsDirKind(fs.store[e])
           THEN UNCHANGED <<updated, skipped, updStatus, pullExit, pc, result>>
           ELSE IF ~HasGitDir(fs.store[e])
           THEN /\ skipped' = skipped + 1
                /\ updStatus' = [updStatus EXCEPT ![e] = "SkippedNoVcs"]
                /\ UNCHANGED <<updated, pullExit, pc, result>>
           ELSE /\ pullExit' = [pullExit EXCEPT ![e] = exit]
                /\ IF pull_continues(exit)
                   THEN /\ updated' = count_updated(updated, exit)
                        /\ updStatus' = [updStatus EXCEPT ![e] =
                               IF exit = "success" THEN "Updated" ELSE "PullFailed"]
                        /\ UNCHANGED <<skipped, pc, result>>
                   ELSE /\ pc' = "done"
                        /\ result' = "SpawnFailed"
                        /\ UNCHANGED <<updated, skipped, updStatus>>
    /\ UNCHANGED <<fs, gitOnPath, cur, pre, prevLink, cloneInvoked, statKind, interference,
                   racedAt, url, derived, dpc>>

\* the summary line and the return
UpdateSummary ==
    /\ pc = "update_loop"
    /\ todo = {}
    /\ pc' = "done"
    /\ result' = "Ok"
    /\ UNCHANGED <<fs, gitOnPath, cur, pre, prevLink, cloneInvoked, statKind, interference,
                   racedAt, todo, order, updStatus, pullExit, updated, skipped, url, derived, dpc>>

Init ==
    /\ fs \in FsStates
    /\ gitOnPath \in BOOLEAN
    /\ pc = "idle"
    /\ cur = [op |-> "none", name |-> <<>>]
    /\ result = "none"
    /\ pre = fs
    /\ prevLink = NoLink
    /\ cloneInvoked = FALSE
    /\ statKind = "none"
    /\ interference = 0
    /\ racedAt = "none"
    /\ todo = {}
    /\ order = <<>>
    /\ updStatus = NoStatus
    /\ pullExit = NoStatus
    /\ updated = 0
    /\ skipped = 0
    /\ url = <<>>
    /\ derived = <<>>
    /\ dpc = "off"

Next ==
    \/ CmdInstall
    \/ CmdLinkStart
    \/ LinkStat
    \/ LinkRemove
    \/ LinkSymlink
    \/ OtherActorRemovesTarget
    \/ CmdUpdateStart
    \/ UpdateStep
    \/ UpdateSummary

Spec == Init /\ [][Next]_vars

\* a started command runs to its end: execution is sequential and blocking
FairSpec ==
    /\ Spec
    /\ WF_vars(LinkStat) /\ WF_vars(LinkRemove) /\ WF_vars(LinkSymlink)
    /\ WF_vars(UpdateStep) /\ WF_vars(UpdateSummary)

-----------------------------------------------------------------------------
(* derive_repo_name on its own *)

InitDerive ==
    /\ fs = [storeRoot |-> FALSE, store |-> [n \in RepoNames |-> "absent"],
             configRoot |-> FALSE, target |-> Absent, otherDir |-> "present"]
    /\ gitOnPath = TRUE
    /\ pc = "idle"
    /\ cur = [op |-> "none", name |-> <<>>]
    /\ result = "none"
    /\ pre = fs
    /\ prevLink = NoLink
    /\ cloneInvoked = FALSE
    /\ statKind = "none"
    /\ interference = 0
    /\ racedAt = "none"
    /\ todo = {}
    /\ order = <<>>
    /\ updStatus = NoStatus
    /\ pullExit = NoStatus
    /\ updated = 0
    /\ skipped = 0
    /\ url \in Urls
    /\ derived = <<>>
    /\ dpc = "call"

DeriveCall ==
    /\ dpc = "call"
    /\ derived' = derive_repo_name(url)
    /\ dpc' = "done"
    /\ UNCHANGED <<fs, gitOnPath, pc, cur, result, pre, prevLink, cloneInvoked, statKind,
                   interference, racedAt, todo, order, updStatus, pullExit, updated, skipped, url>>

NextDerive == DeriveCall

SpecDerive == InitDerive /\ [][NextDerive]_vars

-----------------------------------------------------------------------------
(* Properties *)

LinkDone == pc = "done" /\ cur.op = "link"

InstallDone == pc = "done" /\ cur.op = "install"

UpdateDone == pc = "done" /\ cur.op = "update"

LinkedTo(f, name) == f.target = SymlinkTo(StorePath(name))

\* C1: with the source present, a link that returns success leaves the target a
\* symlink to exactly <store>/<name>, whatever the target was before (absent, file,
\* directory, symlink, dangling symlink); and when nobody else touches the target
\* the link does return success from each of those states.
C1_LinkPostcondition ==
    LinkDone =>
        /\ (result = "Ok" => LinkedTo(fs, cur.name) /\ fs.configRoot)
        /\ (source_exists(pre, cur.name) /\ interference = 0 => result = "Ok")

C1_Witness ==
    /\ LinkDone
    /\ result = "Ok"
    /\ pre.target = SymlinkTo(NowherePath)
    /\ LinkedTo(fs, cur.name)

\* C2: a link whose source is absent fails with SourceNotFound and leaves the
\* filesystem as it found it: the target is not removed and no symlink is made.
C2_SourceNotFoundNoChange ==
    (LinkDone /\ ~source_exists(pre, cur.name)) =>
        /\ result = "SourceNotFound"
        /\ fs = pre

C2_Witness ==
    /\ LinkDone
    /\ result = "SourceNotFound"
    /\ pre.target = DirWithContents
    /\ fs.target = DirWithContents

Terminal == {"Updated", "PullFailed", "SkippedNoVcs"}

\* every entry read_dir can yield has been yielded
AllYielded ==
    \A n \in RepoNames : fs.store[n] # "absent" => \E i \in 1..Len(order) : order[i] = n

UpdateOutcomeOk ==
    UpdateDone =>
        /\ result \in {"Ok", "ToolNotFound", "SpawnFailed"}
        /\ (result = "SpawnFailed" => \E n \in RepoNames : pullExit[n] = "spawn_error")
        /\ (result = "Ok" =>
               /\ AllYielded
               /\ \A n \in RepoNames :
                    /\ IsDirKind(fs.store[n]) => updStatus[n] \in Terminal
                    /\ ~IsDirKind(fs.store[n]) => updStatus[n] = "None"
                    /\ (updStatus[n] = "PullFailed" <=> pullExit[n] = "nonzero")
                    /\ (updStatus[n] = "Updated" <=> pullExit[n] = "success")
                    /\ (updStatus[n] = "SkippedNoVcs" <=>
                            IsDirKind(fs.store[n]) /\ ~HasGitDir(fs.store[n])))

\* C3: an update that has entered its loop ends, and it ends at the summary unless
\* the external tool could not be spawned at all; a pull that exits non-zero never
\* ends the run.  At the summary every entry has been visited and every directory
\* has left Pending for exactly one of Updated, PullFailed, SkippedNoVcs.
C3_UpdateReachesSummary ==
    /\ []UpdateOutcomeOk
    /\ (pc = "update_loop") ~>
          (UpdateDone /\ (result = "Ok" \/ \E n \in RepoNames : pullExit[n] = "spawn_error"))

C3_Witness ==
    /\ UpdateDone
    /\ result = "Ok"
    /\ order = << <<"a">>, <<"b">> >>
    /\ updStatus[<<"a">>] = "PullFailed"
    /\ updStatus[<<"b">>] = "Updated"

\* C4: at the summary `updated` is the number of directories with .git whose pull
\* exited zero and `skipped` the number of directories without .git; failed pulls
\* and non-directories are in neither count.
C4_SummaryCounts ==
    (UpdateDone /\ result = "Ok") =>
        /\ updated = Cardinality({n \in RepoNames :
                          /\ IsDirKind(fs.store[n])
                          /\ HasGitDir(fs.store[n])
                          /\ pullExit[n] = "success"})
        /\ skipped = Cardinality({n \in RepoNames :
                          IsDirKind(fs.store[n]) /\ ~HasGitDir(fs.store[n])})

C4_Witness ==
    /\ UpdateDone
    /\ result = "Ok"
    /\ \E n, m \in RepoNames :
         /\ fs.store[n] = "vcs" /\ pullExit[n] = "nonzero"
         /\ fs.store[m] = "plain"
    /\ updated = 0
    /\ skipped = 1

\* C5: an install whose destination exists returns success, spawns no clone and
\* changes nothing, also when the destination is what a failed clone left behind.
C5_InstallExistingIsNoop ==
    (InstallDone /\ cur.name # <<>> /\ source_exists(pre, cur.name)) =>
        /\ result = "Ok"
        /\ ~cloneInvoked
        /\ fs = pre

C5_Witness ==
    /\ InstallDone
    /\ cur.name # <<>>
    /\ pre.storeRoot
    /\ pre.store[cur.name] = "partial"
    /\ result = "Ok"
    /\ ~cloneInvoked

\* C6: a link repeated right after a successful link of the same name, with nobody
\* else touching the target in between, succeeds and leaves the same symlink.
C6_LinkIdempotent ==
    (LinkDone /\ prevLink.ok /\ prevLink.name = cur.name /\ interference = 0) =>
        /\ result = "Ok"
        /\ LinkedTo(fs, cur.name)
        /\ LinkedTo(pre, cur.name)

C6_Witness ==
    /\ LinkDone
    /\ prevLink.ok
    /\ prevLink.name = cur.name
    /\ interference = 0
    /\ result = "Ok"
    /\ LinkedTo(fs, cur.name)

\* C7 (as claimed): an install rejected for an empty derived name has touched
\* nothing: no directory was created, the store root included.
C7_InvalidUrlTouchesNothing ==
    (InstallDone /\ result = "InvalidRepoUrl") => (fs = pre /\ ~cloneInvoked)

\* the reference transform of the claim: one '/', then one ".git", then the last segment
RefDeriveRepoName(u) ==
    LET a == IF EndsWith(u, <<Slash>>) THEN DropLast(u, 1) ELSE u
        b == IF EndsWith(a, DotGit) THEN DropLast(a, Len(DotGit)) ELSE a
    IN  RSplitNext(b, Slash)

\* C8 (as claimed): derive_repo_name is the reference transform on every URL.
C8_EqualsReference == dpc = "done" => derived = RefDeriveRepoName(url)

RECURSIVE Rep(_, _)
Rep(p, m) == IF m = 0 THEN <<>> ELSE p \o Rep(p, m - 1)

\* r is the last '/'-separated segment of p
FinalSegment(p, r) ==
    /\ \A i \in 1..Len(r) : r[i] # Slash
    /\ EndsWith(p, r)
    /\ (Len(p) = Len(r) \/ p[Len(p) - Len(r)] = Slash)

\* C8 (amended): the URL is p, then some number of ".git", then some number of
\* '/', with p not ending in ".git" and no '/' before the run of slashes; the
\* name is the last segment of p.  So appending '/' to a URL, or ".git" to a URL
\* that does not end in '/', leaves the name unchanged.
C8_StripsAllTrailing ==
    dpc = "done" =>
        /\ \E k \in 0..Len(url), m \in 0..Len(url) :
             /\ k + m * Len(DotGit) <= Len(url)
             /\ LET w == DropLast(url, k)
                    p == DropLast(w, m * Len(DotGit))
                IN  /\ url = w \o Rep(<<Slash>>, k)
                    /\ w = p \o Rep(DotGit, m)
                    /\ ~EndsWith(w, <<Slash>>)
                    /\ ~EndsWith(p, DotGit)
                    /\ FinalSegment(p, derived)
        /\ derive_repo_name(url \o <<Slash>>) = derived
        /\ (~EndsWith(url, <<Slash>>) => derive_repo_name(url \o DotGit) = derived)

C8_Witness ==
    /\ dpc = "done"
    /\ url = <<"a", ".", "g", "i", "t", "/">>
    /\ derived = <<"a">>

\* C9 (as claimed): a target that another actor removes after cmd_link saw it and
\* before cmd_link's own removal call does not make the link fail at the removal.
C9_RaceIsTolerated ==
    (LinkDone /\ racedAt \in {"link_stat", "link_remove"}) => result # "RemovalFailed"

====
